---- MODULE Spec2Model ----
(***************************************************************************)
(* Peer reachability and latency monitor of rafthttp                       *)
(* (etcdserver/api/rafthttp/probing_status.go): addPeerToProber registers  *)
(* a peer with the prober and spawns monitorProbingStatus, a goroutine     *)
(* that polls the peer's probing.Status on an adaptive interval until the  *)
(* status is stopped.                                                       *)
(*                                                                         *)
(* Durations are in milliseconds.  The probing package (Prober, Status)    *)
(* and the constants ConnReadTimeout and ProbingPrefix are not part of the *)
(* sources at hand; they are modelled from the design document.            *)
(***************************************************************************)
EXTENDS Integers, Sequences, FiniteSets, TLC

-----------------------------------------------------------------------------
(* Bounds of the model *)

\* events of the environment in one behaviour: registrations, removals,
\* probe results and timer expiries
MaxEvents == 4

-----------------------------------------------------------------------------
(* Constants of the program *)

\* time.Second, in milliseconds
Second == 1000

\* read timeout of the surrounding transport
ConnReadTimeout == 5 * Second

\* path suffix reserved for probing
ProbingPrefix == "/raft/probing"

\* (mutant) the probes sample at the read timeout itself
proberIntervalFull == ConnReadTimeout

proberInterval == ConnReadTimeout - Second
statusMonitoringInterval == 30 * Second
statusErrorInterval == 5 * Second

-----------------------------------------------------------------------------
(* Input domains *)

Peers == {"P1", "P2"}

AddrLists == {<<>>, <<"10.0.0.1">>, <<"10.0.0.1", "10.0.0.2">>}

\* smoothed round-trip times a probe may record
Srtts == {12, 40}

\* clock differences a probe may record
ClockDiffs == {-1200, Second, 1200}

NoErr == ""
DialTimeout == "dial timeout"

\* a status before its first probe result
ZeroStatus ==
    [health |-> FALSE, srtt |-> 0, clockdiff |-> 0, err |-> DialTimeout, stopped |-> FALSE]

NoProbe == [s |-> 0]

NoCall == [id |-> ""]

VARIABLES
    lg,        \* TRUE when a structured logger (zap) is configured, FALSE for plog
    targets,   \* the prober's registry: peer id -> probe (NoProbe when absent)
    status,    \* the status handles created so far, in order of creation
    mon,       \* the monitor goroutines spawned so far, in order of spawning
    call,      \* the addPeerToProber call that has just returned (NoCall once
               \* anything else has happened since)
    nev,       \* number of events of the environment so far
    pw         \* password resolution of geth: the command line, the function
               \* called and how the call ended

vars == <<lg, targets, status, mon, call, nev, pw>>

-----------------------------------------------------------------------------
(* probing.Status *)

Health(s) == status[s].health
SRTT(s) == status[s].srtt
Err(s) == status[s].err
ClockDiff(s) == status[s].clockdiff
\* StopNotify's channel is closed, so a receive from it can proceed
StopNotified(s) == status[s].stopped

\* time.Duration.Seconds: the duration as a decimal number of seconds,
\* whole seconds and thousandths
Seconds(d) == [whole |-> d \div Second, thousandths |-> d % Second]

-----------------------------------------------------------------------------
(* probing.Prober *)

\* the statuses once the stop signal of s has fired
Stopped(st, s) == [st EXCEPT ![s].stopped = TRUE]

\* AddHTTP(id, interval, hus): the outcomes the prober may produce.  The add
\* is rejected (an error, the registry unchanged) for an empty target list and
\* may be rejected for any other add (e.g. the id is registered already);
\* otherwise the probe for id is created, or replaced by a new one with a new
\* status, the replaced probe's status being stopped.
AddHTTP(id, interval, hus) ==
    {[err |-> TRUE, targets |-> targets, status |-> status]}
        \cup IF hus = <<>>
             THEN {}
             ELSE {[err |-> FALSE,
                    targets |-> [targets EXCEPT ![id] =
                                    [s |-> Len(status) + 1, interval |-> interval, hus |-> hus]],
                    status |-> Append(IF targets[id] = NoProbe
                                        THEN status
                                        ELSE Stopped(status, targets[id].s),
                                      ZeroStatus)]}

\* Status(id) on registry tg: the status handle of id, or an error
StatusOf(tg, id) ==
    IF tg[id] = NoProbe THEN [err |-> TRUE, s |-> 0] ELSE [err |-> FALSE, s |-> tg[id].s]

-----------------------------------------------------------------------------
(* addPeerToProber *)

\* (mutant) the probing URLs in the reverse order of the addresses
ProbeURLsReversed(us) == [i \in 1..Len(us) |-> us[Len(us) + 1 - i] \o ProbingPrefix]

\* hus[i] = us[i] + ProbingPrefix
ProbeURLs(us) == [i \in 1..Len(us) |-> us[i] \o ProbingPrefix]

\* the warning logged when no status is found for the peer
AddFailure(l, id) ==
    IF l THEN [kind |-> "add-failed", level |-> "warn", id |-> id]
         ELSE [kind |-> "add-failed", level |-> "error", id |-> id]

\* (mutant) the monitor starts with the long interval
FirstIntervalSteady == statusMonitoringInterval

\* the interval monitorProbingStatus starts with
FirstInterval == statusErrorInterval

\* (mutant) the monitor is handed the first status of the prober, whatever the peer
NewMonitorFirstStatus(s, id) ==
    [id |-> id, s |-> 1, pc |-> "select", interval |-> FirstInterval,
     timer |-> FirstInterval, fired |-> FALSE,
     h |-> FALSE, cd |-> 0, ev |-> <<>>]

\* go monitorProbingStatus(lg, s, id), up to its first select
NewMonitor(s, id) ==
    [id |-> id, s |-> s, pc |-> "select", interval |-> FirstInterval,
     timer |-> FirstInterval, fired |-> FALSE,
     h |-> FALSE, cd |-> 0, ev |-> <<>>]

\* whether addPeerToProber gives up: the error of p.Status(id) decides, the
\* result of p.AddHTTP is dropped
GivesUp(addErr, statusErr) == statusErr

\* addPeerToProber has no result
NoResult == "none"

AddPeer(id, us) ==
    /\ nev < MaxEvents
    /\ nev' = nev + 1
    /\ \E r \in AddHTTP(id, proberInterval, ProbeURLs(us)) :
          LET st == StatusOf(r.targets, id)
              giveup == GivesUp(r.err, st.err)
          IN
          /\ targets' = r.targets
          /\ status' = r.status
          /\ mon' = IF giveup THEN mon ELSE Append(mon, NewMonitor(st.s, id))
          /\ call' = [id |-> id, us |-> us, addErr |-> r.err, statusErr |-> st.err,
                      log |-> IF giveup THEN <<AddFailure(lg, id)>> ELSE <<>>,
                      spawned |-> ~giveup, ret |-> NoResult]
    /\ UNCHANGED <<lg, pw>>

-----------------------------------------------------------------------------
(* The prober on its own: removal of a peer, and the probe executor *)

\* Remove(id): the probe's status is stopped and the probe deleted
RemovePeer(id) ==
    /\ nev < MaxEvents
    /\ nev' = nev + 1
    /\ targets[id] # NoProbe
    /\ status' = Stopped(status, targets[id].s)
    /\ targets' = [targets EXCEPT ![id] = NoProbe]
    /\ call' = NoCall
    /\ UNCHANGED <<lg, mon, pw>>

\* a probe succeeded: the status turns healthy with a new RTT and clock difference
ProbeRecord(s, rtt, cd) ==
    /\ nev < MaxEvents
    /\ nev' = nev + 1
    /\ ~status[s].stopped
    /\ status' = [status EXCEPT ![s].health = TRUE, ![s].srtt = rtt,
                                ![s].clockdiff = cd, ![s].err = NoErr]
    /\ status' # status
    /\ call' = NoCall
    /\ UNCHANGED <<lg, targets, mon, pw>>

\* a probe failed: the status turns unhealthy and keeps the error
ProbeFailure(s, e) ==
    /\ nev < MaxEvents
    /\ nev' = nev + 1
    /\ ~status[s].stopped
    /\ status' = [status EXCEPT ![s].health = FALSE, ![s].err = e]
    /\ status' # status
    /\ call' = NoCall
    /\ UNCHANGED <<lg, targets, mon, pw>>

-----------------------------------------------------------------------------
(* monitorProbingStatus *)

Monitors == 1..Len(mon)

\* (mutant) a step of monitor m that also stops the status it watches
StepStopping(m, rec) ==
    /\ mon' = [mon EXCEPT ![m] = rec]
    /\ call' = NoCall
    /\ status' = Stopped(status, mon[m].s)
    /\ UNCHANGED <<lg, targets, nev, pw>>

\* a step of monitor m alone
Step(m, rec) ==
    /\ mon' = [mon EXCEPT ![m] = rec]
    /\ call' = NoCall
    /\ UNCHANGED <<lg, targets, status, nev, pw>>

\* the timer of time.After(interval) expires: its channel becomes ready
TimerExpire(m) ==
    /\ nev < MaxEvents
    /\ nev' = nev + 1
    /\ mon[m].pc = "select"
    /\ ~mon[m].fired
    /\ mon' = [mon EXCEPT ![m].fired = TRUE]
    /\ call' = NoCall
    /\ UNCHANGED <<lg, targets, status, pw>>

\* (mutant) the timer case is taken without waiting for the timer
SelectTimerUnfired(m) ==
    /\ mon[m].pc = "select"
    /\ Step(m, [mon[m] EXCEPT !.pc = "health", !.timer = 0, !.fired = FALSE, !.ev = <<>>])

\* select takes case <-time.After(interval)
SelectTimer(m) ==
    /\ mon[m].pc = "select"
    /\ mon[m].fired
    /\ Step(m, [mon[m] EXCEPT !.pc = "health", !.timer = 0, !.fired = FALSE, !.ev = <<>>])

\* (mutant) break instead of return: the stop case leaves the select only,
\* and the loop waits again
SelectStopBreak(m) ==
    /\ mon[m].pc = "select"
    /\ StopNotified(mon[m].s)
    /\ Step(m, [mon[m] EXCEPT !.timer = mon[m].interval, !.fired = FALSE])

\* select takes case <-s.StopNotify(): return
SelectStop(m) ==
    /\ mon[m].pc = "select"
    /\ StopNotified(mon[m].s)
    /\ Step(m, [mon[m] EXCEPT !.pc = "done"])

\* (mutant) an unhealthy status doubles the wait
NextIntervalBackoff(healthy) ==
    IF ~healthy THEN 2 * statusErrorInterval ELSE statusMonitoringInterval

\* (mutant) the two intervals interchanged
NextIntervalSwapped(healthy) ==
    IF ~healthy THEN statusMonitoringInterval ELSE statusErrorInterval

\* the interval chosen for a status read healthy or not
NextInterval(healthy) ==
    IF ~healthy THEN statusErrorInterval ELSE statusMonitoringInterval

\* (mutant) an unhealthy status ends the monitor
CheckHealthFatal(m) ==
    /\ mon[m].pc = "health"
    /\ LET healthy == Health(mon[m].s) IN
       Step(m, [mon[m] EXCEPT !.h = healthy,
                              !.pc = IF ~healthy THEN "done" ELSE "clock",
                              !.interval = IF healthy THEN NextInterval(healthy) ELSE @])

\* if !s.Health(): the healthy branch sets the interval at once, the unhealthy
\* branch after its warning
CheckHealth(m) ==
    /\ mon[m].pc = "health"
    /\ LET healthy == Health(mon[m].s) IN
       Step(m, [mon[m] EXCEPT !.h = healthy,
                              !.pc = IF ~healthy THEN "warn" ELSE "clock",
                              !.interval = IF healthy THEN NextInterval(healthy) ELSE @])

UnhealthyWarning(l, id, s) ==
    IF l THEN [kind |-> "unhealthy", id |-> id, rtt |-> SRTT(s), error |-> Err(s)]
         ELSE [kind |-> "unhealthy", id |-> id, error |-> Err(s)]

\* the unhealthy branch: the warning, then interval = statusErrorInterval
WarnUnhealthy(m) ==
    /\ mon[m].pc = "warn"
    /\ Step(m, [mon[m] EXCEPT !.ev = Append(@, UnhealthyWarning(lg, mon[m].id, mon[m].s)),
                              !.interval = NextInterval(mon[m].h),
                              !.pc = "clock"])

\* (mutant) a clock difference of exactly one second reported too
TooHighInclusive(cd) == cd >= Second

\* the condition under which the clock difference cd is reported
TooHigh(cd) == cd > Second

\* (mutant) a clock difference too high brings the fast interval back
CheckClockFast(m) ==
    /\ mon[m].pc = "clock"
    /\ LET cd == ClockDiff(mon[m].s) IN
       Step(m, [mon[m] EXCEPT !.cd = cd,
                              !.pc = IF TooHigh(cd) THEN "drift" ELSE "metric",
                              !.interval = IF TooHigh(cd) THEN statusErrorInterval ELSE @])

\* if s.ClockDiff() > time.Second
CheckClock(m) ==
    /\ mon[m].pc = "clock"
    /\ LET cd == ClockDiff(mon[m].s) IN
       Step(m, [mon[m] EXCEPT !.cd = cd,
                              !.pc = IF TooHigh(cd) THEN "drift" ELSE "metric"])

DriftWarning(l, id, s) ==
    IF l THEN [kind |-> "drift", id |-> id, clockdrift |-> SRTT(s), rtt |-> ClockDiff(s),
               error |-> Err(s)]
         ELSE [kind |-> "drift", id |-> id, difference |-> ClockDiff(s), limit |-> Second]

\* (mutant) the clock-drift warning put before what the iteration has emitted
WarnDriftFirst(m) ==
    /\ mon[m].pc = "drift"
    /\ Step(m, [mon[m] EXCEPT !.ev = <<DriftWarning(lg, mon[m].id, mon[m].s)>> \o @,
                              !.pc = "metric"])

\* the clock-drift warning
WarnDrift(m) ==
    /\ mon[m].pc = "drift"
    /\ Step(m, [mon[m] EXCEPT !.ev = Append(@, DriftWarning(lg, mon[m].id, mon[m].s)),
                              !.pc = "metric"])

\* (mutant) every observation goes under the label of the first peer
RttObservationFirstPeer(id, s) == [kind |-> "rtt", id |-> "P1", seconds |-> Seconds(SRTT(s))]

\* rttSec.WithLabelValues(id).Observe(s.SRTT().Seconds())
RttObservation(id, s) == [kind |-> "rtt", id |-> id, seconds |-> Seconds(SRTT(s))]

\* (mutant) the monitor returns after its first iteration
ObserveRttOnce(m) ==
    /\ mon[m].pc = "metric"
    /\ Step(m, [mon[m] EXCEPT !.ev = Append(@, RttObservation(mon[m].id, mon[m].s)),
                              !.pc = "done"])

\* (mutant) the RTT is observed for healthy iterations only
ObserveRttHealthyOnly(m) ==
    /\ mon[m].pc = "metric"
    /\ Step(m, [mon[m] EXCEPT !.ev = IF mon[m].h
                                       THEN Append(@, RttObservation(mon[m].id, mon[m].s))
                                       ELSE @,
                              !.pc = "select",
                              !.timer = mon[m].interval,
                              !.fired = FALSE])

\* rttSec.WithLabelValues(id).Observe(s.SRTT().Seconds()), and back to the select
\* with a new timer of the current interval
ObserveRtt(m) ==
    /\ mon[m].pc = "metric"
    /\ Step(m, [mon[m] EXCEPT !.ev = Append(@, RttObservation(mon[m].id, mon[m].s)),
                              !.pc = "select",
                              !.timer = mon[m].interval,
                              !.fired = FALSE])

-----------------------------------------------------------------------------
(* Password resolution of geth (cmd/geth/passwords.go)                      *)

\* names of the flags, from the flag table of cmd/utils
PasswordFileFlag == "password"
VoteAccountPasswordFlag == "votepassword"
VoteBlockMakerAccountPasswordFlag == "blockmakerpassword"
VaultAddrFlag == "vaultaddr"
VaultPrefixFlag == "vaultprefix"
VaultPasswordPathFlag == "vaultpasswordpath"
VaultPasswordNameFlag == "vaultpasswordname"

FlagNames ==
    {PasswordFileFlag, VoteAccountPasswordFlag, VoteBlockMakerAccountPasswordFlag,
     VaultAddrFlag, VaultPrefixFlag, VaultPasswordPathFlag, VaultPasswordNameFlag}

\* the Value of each flag in the flag table: what GlobalString gives when the
\* flag is not on the command line
DefaultContext ==
    [f \in FlagNames |->
        IF f = VaultPrefixFlag THEN "quorum"
        ELSE IF f = VaultPasswordNameFlag THEN "geth_pw"
        ELSE ""]

\* what a command line can give a flag: nothing (its default), a value, or
\* the empty string
Supplied(f) ==
    CASE f = PasswordFileFlag -> {"/etc/geth/pw"}
      [] f = VoteAccountPasswordFlag -> {"votepw"}
      [] f = VoteBlockMakerAccountPasswordFlag -> {"makerpw"}
      [] f = VaultAddrFlag -> {"https://vault:8200"}
      [] f = VaultPrefixFlag -> {""}
      [] f = VaultPasswordPathFlag -> {"node1"}
      [] f = VaultPasswordNameFlag -> {""}

\* the values flag f can have
Given(f) == {DefaultContext[f]} \cup Supplied(f)

\* the command lines considered: a value for each flag of FlagNames
Contexts ==
    [password : Given(PasswordFileFlag),
     votepassword : Given(VoteAccountPasswordFlag),
     blockmakerpassword : Given(VoteBlockMakerAccountPasswordFlag),
     vaultaddr : Given(VaultAddrFlag),
     vaultprefix : Given(VaultPrefixFlag),
     vaultpasswordpath : Given(VaultPasswordPathFlag),
     vaultpasswordname : Given(VaultPasswordNameFlag)]

\* ctx.GlobalString(name)
GlobalString(ctx, name) == ctx[name]

\* make([]string, n): a slice of n empty strings
MakeStrings(n) == [i \in 1..n |-> ""]

\* the orders in which a range over a map with key set S can visit its keys
Orders(S) ==
    {o \in [1..Cardinality(S) -> S] : \A i, j \in 1..Cardinality(S) : i # j => o[i] # o[j]}

\* the messages of the fatal errors
TooManyPasswordFlags == "Too many password flags have been set.  Only one of the following should be supplied: %v"
MissingVaultFlags == "No account password specified, but missing flags required for retrieving password from Vault.  Please supply: %v"
NoPasswordArguments == "Looked for password via fetchPasswordFromCLI, but no password arguments found."
CalledWithPasswordArgument == "fetchPasswordFromVault called even though CLI got a password argument."
KeyNameNotFound == "fetchPasswordFromVault found a secret at specified path, but secret did not contain specified key name."
LoginError == "login error"
ReadError == "read error"
NilDereference == "invalid memory address or nil pointer dereference"
NotAString == "interface conversion: interface {} is not string"

\* utils.Fatalf(msg, list) and log.Fatal(err): the message is printed and the
\* process exits, so the caller never sees a result
Fatalf(msg, list, calls) ==
    [kind |-> "fatal", value |-> "", msg |-> msg, list |-> list, calls |-> calls]

\* a run-time panic
Panic(msg, calls) ==
    [kind |-> "panic", value |-> "", msg |-> msg, list |-> <<>>, calls |-> calls]

\* return value, nil
Return(value, calls) ==
    [kind |-> "return", value |-> value, msg |-> "", list |-> <<>>, calls |-> calls]

\* usingVaultPassword(ctx): the ways the call can end, one per order in which
\* the maps are ranged over.  setPassFlags and missingFlags are made with
\* make([]string, 3) and appended to.
usingVaultPassword(ctx) ==
    LET set == {f \in {VoteAccountPasswordFlag, VoteBlockMakerAccountPasswordFlag,
                       PasswordFileFlag} : GlobalString(ctx, f) # ""}
        missing == {f \in {VaultAddrFlag, VaultPrefixFlag, VaultPasswordNameFlag,
                           VaultPasswordPathFlag} : GlobalString(ctx, f) = ""}
    IN
    UNION {LET setPassFlags == MakeStrings(3) \o o IN
           IF Len(setPassFlags) > 0
           THEN IF Len(setPassFlags) = 1
                THEN {[kind |-> "return", value |-> FALSE, msg |-> "", list |-> <<>>]}
                ELSE {[kind |-> "fatal", value |-> FALSE,
                       msg |-> TooManyPasswordFlags, list |-> setPassFlags]}
           ELSE UNION {LET missingFlags == MakeStrings(3) \o q IN
                       IF Len(missingFlags) > 0
                       THEN {[kind |-> "fatal", value |-> FALSE,
                              msg |-> MissingVaultFlags, list |-> missingFlags]}
                       ELSE {[kind |-> "return", value |-> TRUE, msg |-> "", list |-> <<>>]}
                       : q \in Orders(missing)}
           : o \in Orders(set)}

\* (mutant) the password flag comes before the two others
fetchPasswordFromCLIFileFirst(ctx) ==
    LET accountPass == GlobalString(ctx, VoteAccountPasswordFlag)
        blockPass == GlobalString(ctx, VoteBlockMakerAccountPasswordFlag)
        filePass == GlobalString(ctx, PasswordFileFlag)
    IN
    IF filePass # "" THEN Return(filePass, <<>>)
    ELSE IF accountPass # "" THEN Return(accountPass, <<>>)
    ELSE IF blockPass # "" THEN Return(blockPass, <<>>)
    ELSE Fatalf(NoPasswordArguments, <<>>, <<>>)

\* fetchPasswordFromCLI(ctx): votepassword, else blockmakerpassword, else
\* password, else a fatal error
fetchPasswordFromCLI(ctx) ==
    LET accountPass == GlobalString(ctx, VoteAccountPasswordFlag)
        blockPass == GlobalString(ctx, VoteBlockMakerAccountPasswordFlag)
        filePass == GlobalString(ctx, PasswordFileFlag)
    IN
    IF accountPass # "" THEN Return(accountPass, <<>>)
    ELSE IF blockPass # "" THEN Return(blockPass, <<>>)
    ELSE IF filePass # "" THEN Return(filePass, <<>>)
    ELSE Fatalf(NoPasswordArguments, <<>>, <<>>)

\* what Vault and AWS do during one call: whether the client can be created,
\* whether the login succeeds, whether the read succeeds, and what is stored
\* at the path read (nothing, a string under StoredKey, or another value)
VaultEnvs == [client : {"ok", "err"}, login : {"ok", "err"}, read : {"ok", "err"},
              secret : {"nil", "string", "other"}]

\* the key and the value of the secret kept in Vault, and the login's token
StoredKey == "geth_pw"
StoredPassword == "s3cret"
Token == "token"

\* a request made to Vault or AWS
Request(op, arg) == [op |-> op, arg |-> arg]

\* the branch of fetchPasswordFromVault taken when usingVaultPassword holds:
\* the client, the login (whose error replaces the client's), the token, the
\* read and the extraction, with the requests made in their order
ReadFromVault(ctx, env) ==
    LET created == <<Request("NewClient", GlobalString(ctx, VaultAddrFlag))>>
        loggedIn == Append(created, Request("loginAws", "auth/aws/login"))
        tokenSet == Append(loggedIn, Request("SetToken", Token))
        path == "/" \o GlobalString(ctx, VaultPrefixFlag)
                    \o "/" \o GlobalString(ctx, VaultPasswordPathFlag)
        read == Append(tokenSet, Request("Read", path))
    IN
    IF env.login = "err" THEN {Fatalf(LoginError, <<>>, loggedIn)}
    ELSE IF env.client = "err" THEN {Panic(NilDereference, loggedIn)}
    ELSE IF env.read = "err" THEN {Fatalf(ReadError, <<>>, read)}
    ELSE IF env.secret = "nil" THEN {Panic(NilDereference, read)}
    ELSE IF GlobalString(ctx, VaultPasswordNameFlag) # StoredKey
         THEN {Fatalf(KeyNameNotFound, <<>>, read)}
    ELSE IF env.secret = "other" THEN {Panic(NotAString, read)}
    ELSE {Return(StoredPassword, read)}

\* fetchPasswordFromVault(ctx) in environment env: the ways the call can end
fetchPasswordFromVault(ctx, env) ==
    UNION {IF u.kind = "fatal" THEN {Fatalf(u.msg, u.list, <<>>)}
           ELSE IF ~u.value THEN {Fatalf(CalledWithPasswordArgument, <<>>, <<>>)}
           ELSE ReadFromVault(ctx, env)
           : u \in usingVaultPassword(ctx)}

\* fetchPassword(ctx) in environment env: the ways the call can end
fetchPassword(ctx, env) ==
    UNION {IF u.kind = "fatal" THEN {Fatalf(u.msg, u.list, <<>>)}
           ELSE IF u.value THEN fetchPasswordFromVault(ctx, env)
           ELSE {fetchPasswordFromCLI(ctx)}
           : u \in usingVaultPassword(ctx)}

\* no function of passwords.go has been called for command line ctx
NotStarted(ctx) == [ctx |-> ctx, fn |-> "", out |-> [kind |-> ""]]

\* geth calls usingVaultPassword(ctx)
CallUsingVaultPassword ==
    /\ pw.fn = ""
    /\ \E o \in usingVaultPassword(pw.ctx) :
          pw' = [pw EXCEPT !.fn = "usingVaultPassword", !.out = o]
    /\ UNCHANGED <<lg, targets, status, mon, call, nev>>

\* geth calls fetchPassword(ctx)
CallFetchPassword ==
    /\ pw.fn = ""
    /\ \E env \in VaultEnvs : \E o \in fetchPassword(pw.ctx, env) :
          pw' = [pw EXCEPT !.fn = "fetchPassword", !.out = o]
    /\ UNCHANGED <<lg, targets, status, mon, call, nev>>

\* geth calls fetchPasswordFromCLI(ctx)
CallFetchPasswordFromCLI ==
    /\ pw.fn = ""
    /\ pw' = [pw EXCEPT !.fn = "fetchPasswordFromCLI", !.out = fetchPasswordFromCLI(pw.ctx)]
    /\ UNCHANGED <<lg, targets, status, mon, call, nev>>

\* geth calls fetchPasswordFromVault(ctx)
CallFetchPasswordFromVault ==
    /\ pw.fn = ""
    /\ \E env \in VaultEnvs : \E o \in fetchPasswordFromVault(pw.ctx, env) :
          pw' = [pw EXCEPT !.fn = "fetchPasswordFromVault", !.out = o]
    /\ UNCHANGED <<lg, targets, status, mon, call, nev>>

\* geth starts with any of the command lines, before any peer is registered
PwInit ==
    /\ lg = FALSE
    /\ targets = [id \in Peers |-> NoProbe]
    /\ status = <<>>
    /\ mon = <<>>
    /\ call = NoCall
    /\ nev = 0
    /\ pw \in {NotStarted(c) : c \in Contexts}

PwNext ==
    \/ CallUsingVaultPassword
    \/ CallFetchPassword
    \/ CallFetchPasswordFromCLI
    \/ CallFetchPasswordFromVault

PwSpec == PwInit /\ [][PwNext]_vars

-----------------------------------------------------------------------------

Init ==
    /\ lg \in BOOLEAN
    /\ targets = [id \in Peers |-> NoProbe]
    /\ status = <<>>
    /\ mon = <<>>
    /\ call = NoCall
    /\ nev = 0
    /\ pw = NotStarted(DefaultContext)

Next ==
    \/ \E id \in Peers, us \in AddrLists : AddPeer(id, us)
    \/ \E id \in Peers : RemovePeer(id)
    \/ \E s \in 1..Len(status), rtt \in Srtts, cd \in ClockDiffs : ProbeRecord(s, rtt, cd)
    \/ \E s \in 1..Len(status) : ProbeFailure(s, DialTimeout)
    \/ \E m \in Monitors : TimerExpire(m)
    \/ \E m \in Monitors : SelectTimer(m)
    \/ \E m \in Monitors : SelectStop(m)
    \/ \E m \in Monitors : CheckHealth(m)
    \/ \E m \in Monitors : WarnUnhealthy(m)
    \/ \E m \in Monitors : CheckClock(m)
    \/ \E m \in Monitors : WarnDrift(m)
    \/ \E m \in Monitors : ObserveRtt(m)

Spec == Init /\ [][Next]_vars

\* some monitor goes on after its wait: these steps never block
Runs ==
    \E m \in Monitors :
        \/ SelectTimer(m)
        \/ CheckHealth(m)
        \/ WarnUnhealthy(m)
        \/ CheckClock(m)
        \/ WarnDrift(m)
        \/ ObserveRtt(m)

\* some monitor returns
Returns == \E m \in Monitors : SelectStop(m)

\* Scheduling: a runnable goroutine runs in the end, and a select that finds
\* the stop case ready again and again takes it in the end (select chooses
\* among the ready cases uniformly at random).  Timers are under no obligation
\* to expire.
FairSpec == Spec /\ WF_vars(Runs) /\ SF_vars(Returns)

-----------------------------------------------------------------------------
(* One registered peer watched without end: the monitor of P1 after         *)
(* addPeerToProber("P1", <<"10.0.0.1">>) was accepted, with the prober and  *)
(* the timers going on for as long as the program runs.                     *)

\* the state addPeerToProber leaves when the probe of P1 is created
PollInit ==
    /\ lg \in BOOLEAN
    /\ targets = [id \in Peers |->
                    IF id = "P1"
                    THEN [s |-> 1, interval |-> proberInterval,
                          hus |-> ProbeURLs(<<"10.0.0.1">>)]
                    ELSE NoProbe]
    /\ status = <<ZeroStatus>>
    /\ mon = <<NewMonitor(1, "P1")>>
    /\ call = [id |-> "P1", us |-> <<"10.0.0.1">>, addErr |-> FALSE, statusErr |-> FALSE,
               log |-> <<>>, spawned |-> TRUE, ret |-> NoResult]
    /\ nev = 1
    /\ pw = NotStarted(DefaultContext)

\* Remove(id), at any time
PollRemove(id) ==
    /\ targets[id] # NoProbe
    /\ status' = Stopped(status, targets[id].s)
    /\ targets' = [targets EXCEPT ![id] = NoProbe]
    /\ call' = NoCall
    /\ UNCHANGED <<lg, mon, nev, pw>>

\* a probe succeeded, at any time
PollRecord(s, rtt, cd) ==
    /\ ~status[s].stopped
    /\ status' = [status EXCEPT ![s].health = TRUE, ![s].srtt = rtt,
                                ![s].clockdiff = cd, ![s].err = NoErr]
    /\ status' # status
    /\ call' = NoCall
    /\ UNCHANGED <<lg, targets, mon, nev, pw>>

\* a probe failed, at any time
PollFailure(s, e) ==
    /\ ~status[s].stopped
    /\ status' = [status EXCEPT ![s].health = FALSE, ![s].err = e]
    /\ status' # status
    /\ call' = NoCall
    /\ UNCHANGED <<lg, targets, mon, nev, pw>>

\* the timer of time.After(interval) expires, as every timer does
PollExpire(m) ==
    /\ mon[m].pc = "select"
    /\ ~mon[m].fired
    /\ mon' = [mon EXCEPT ![m].fired = TRUE]
    /\ call' = NoCall
    /\ UNCHANGED <<lg, targets, status, nev, pw>>

PollNext ==
    \/ \E id \in Peers : PollRemove(id)
    \/ \E s \in 1..Len(status), rtt \in Srtts, cd \in ClockDiffs : PollRecord(s, rtt, cd)
    \/ \E s \in 1..Len(status) : PollFailure(s, DialTimeout)
    \/ \E m \in Monitors : PollExpire(m)
    \/ \E m \in Monitors : SelectTimer(m)
    \/ \E m \in Monitors : SelectStop(m)
    \/ \E m \in Monitors : CheckHealth(m)
    \/ \E m \in Monitors : WarnUnhealthy(m)
    \/ \E m \in Monitors : CheckClock(m)
    \/ \E m \in Monitors : WarnDrift(m)
    \/ \E m \in Monitors : ObserveRtt(m)

\* some timer expires
Expires == \E m \in Monitors : PollExpire(m)

\* the goroutine is scheduled again and again, and a running timer expires
PollSpec == PollInit /\ [][PollNext]_vars /\ WF_vars(Runs) /\ WF_vars(Expires)

-----------------------------------------------------------------------------
(* Properties *)

Abs(x) == IF x < 0 THEN -x ELSE x

\* number of events of kind k in ev
Count(ev, k) == Cardinality({i \in DOMAIN ev : ev[i].kind = k})

\* monitor m has gone through an iteration and waits (or has returned) since:
\* mon[m].ev holds the events of that iteration, mon[m].h and mon[m].cd the
\* health and the clock difference it read
Completed(m) == mon[m].pc \in {"select", "done"} /\ mon[m].ev # <<>>

\* C1: after an iteration that read the status unhealthy the monitor waits
\* statusErrorInterval (5 s), after one that read it healthy
\* statusMonitoringInterval (30 s)
C1_IntervalFollowsHealth ==
    \A m \in Monitors :
        (Completed(m) /\ mon[m].pc = "select") =>
            /\ ~mon[m].h => mon[m].timer = statusErrorInterval /\ mon[m].timer = 5 * Second
            /\ mon[m].h => mon[m].timer = statusMonitoringInterval /\ mon[m].timer = 30 * Second

\* a monitor waits 30 s after a healthy iteration
C1_Witness ==
    \E m \in Monitors :
        Completed(m) /\ mon[m].pc = "select" /\ mon[m].h /\ mon[m].timer = 30 * Second

\* C2: a monitor that has made no observation yet waits the fast interval,
\* whatever the health of its status
C2_FirstWaitIsFast ==
    \A m \in Monitors :
        (mon[m].pc = "select" /\ mon[m].ev = <<>>) => mon[m].timer = statusErrorInterval

\* a monitor in its first wait, of 5 s, while its status is healthy
C2_Witness ==
    \E m \in Monitors :
        /\ mon[m].pc = "select" /\ mon[m].ev = <<>>
        /\ Health(mon[m].s)
        /\ mon[m].timer = 5 * Second

\* C3 as claimed: once the stop signal has fired while the monitor waits, the
\* monitor makes no further observation, whether or not its timer has expired
C3_NoObservationAfterStop ==
    [][\A m \in Monitors :
          (mon[m].pc = "select" /\ StopNotified(mon[m].s))
              => mon'[m].pc \in {"select", "done"}]_vars

\* C3 as amended: once the stop signal has fired while the monitor waits and
\* the timer has not expired when the select chooses, the monitor makes no
\* further observation; and a monitor that has returned emits nothing
C3_NoObservationAfterStopUnlessTimerFired ==
    [][\A m \in Monitors :
          /\ (mon[m].pc = "select" /\ StopNotified(mon[m].s) /\ ~mon[m].fired)
                => mon'[m].pc \in {"select", "done"}
          /\ mon[m].pc = "done" => mon'[m] = mon[m]]_vars

\* a monitor has returned on the stop signal before any observation, its
\* timer not expired
C3_Witness ==
    \E m \in Monitors :
        mon[m].pc = "done" /\ StopNotified(mon[m].s) /\ ~mon[m].fired /\ mon[m].ev = <<>>

\* C4 as claimed: an iteration whose clock difference exceeds one second in
\* absolute value emits exactly one drift warning, healthy or not; a healthy
\* one with 1.2 s emits one drift warning, one RTT observation and no
\* unhealthy warning
C4_DriftWarningByMagnitude ==
    \A m \in Monitors :
        Completed(m) =>
            /\ Abs(mon[m].cd) > Second => Count(mon[m].ev, "drift") = 1
            /\ (mon[m].h /\ mon[m].cd = 1200) =>
                  /\ Count(mon[m].ev, "drift") = 1
                  /\ Count(mon[m].ev, "rtt") = 1
                  /\ Count(mon[m].ev, "unhealthy") = 0

\* C5 as claimed: a registration with an empty address list spawns no
\* monitor and reports a failure
C5_EmptyListRejected ==
    (call # NoCall /\ call.us = <<>>) => (~call.spawned /\ call.ret = "failure")

\* C6 as claimed: when the prober rejects the add or has no status for the
\* peer, exactly one warning for that peer is logged and no monitor is spawned
C6_ProbeFailureLogged ==
    (call # NoCall /\ (call.addErr \/ call.statusErr)) =>
        /\ Len(call.log) = 1
        /\ call.log[1].kind = "add-failed" /\ call.log[1].id = call.id
        /\ ~call.spawned

C8_OneLiveMonitorPerPeer ==
    \A id \in Peers :
        Cardinality({m \in Monitors : mon[m].id = id /\ mon[m].pc # "done"}) <= 1

\* C9: a monitor that has returned has a status whose stop signal has fired
C9_ReturnsOnlyOnStop ==
    \A m \in Monitors : mon[m].pc = "done" => StopNotified(mon[m].s)

\* a monitor has returned after an iteration that found its peer unhealthy
C9_Witness ==
    \E m \in Monitors :
        mon[m].pc = "done" /\ Count(mon[m].ev, "unhealthy") = 1 /\ StopNotified(mon[m].s)

\* C10: under fair scheduling every monitor whose status has had its stop
\* signal fired returns in the end and stays returned (the stop signal and the
\* return are both final, so this is "stop fired leads to returned" for each
\* monitor); and while a monitor waits, the stop case can be taken whether or
\* not the timer has expired
C10_StopTerminates ==
    /\ [](\A m \in Monitors :
            (mon[m].pc = "select" /\ StopNotified(mon[m].s)) => ENABLED SelectStop(m))
    /\ <>[](\A m \in Monitors : StopNotified(mon[m].s) => mon[m].pc = "done")

\* a monitor has returned from a wait of the steady interval whose timer had
\* not expired
C10_Witness ==
    \E m \in Monitors :
        /\ mon[m].pc = "done"
        /\ mon[m].timer = statusMonitoringInterval
        /\ ~mon[m].fired

\* the last event of a non-empty sequence of events
Last(ev) == ev[Len(ev)]

\* C11: the step that ends an iteration records one RTT observation, labelled
\* with the monitor's peer id and equal to the smoothed RTT in seconds; an
\* iteration ends through that step only and records no other observation, so
\* there is one observation per iteration, healthy or not
C11_OneRttObservationPerIteration ==
    [][\A m \in Monitors :
          /\ (mon[m].pc = "metric" /\ mon'[m] # mon[m]) =>
                /\ mon'[m].pc = "select"
                /\ Len(mon'[m].ev) = Len(mon[m].ev) + 1
                /\ Last(mon'[m].ev).kind = "rtt"
                /\ Last(mon'[m].ev).id = mon[m].id
                /\ Last(mon'[m].ev).seconds.whole * Second
                      + Last(mon'[m].ev).seconds.thousandths = SRTT(mon[m].s)
                /\ Count(mon'[m].ev, "rtt") = 1
          /\ (mon[m].pc # "select" /\ mon'[m].pc = "select") => mon[m].pc = "metric"
          /\ mon[m].pc \in {"health", "warn", "clock", "drift"} =>
                Count(mon'[m].ev, "rtt") = 0]_vars

\* an unhealthy iteration has ended with its RTT observation
C11_Witness ==
    \E m \in Monitors :
        Completed(m) /\ ~mon[m].h /\ Count(mon[m].ev, "rtt") = 1 /\ Last(mon[m].ev).kind = "rtt"

\* C12: an unhealthy iteration emits exactly one unhealthy warning,
\* which carries the peer id, the smoothed RTT and the last error, with and
\* without a structured logger; a healthy iteration emits none
C12_UnhealthyWarningCarriesRtt ==
    \A m \in Monitors :
        Completed(m) =>
            /\ mon[m].h => Count(mon[m].ev, "unhealthy") = 0
            /\ ~mon[m].h =>
                  /\ Count(mon[m].ev, "unhealthy") = 1
                  /\ mon[m].ev[1].kind = "unhealthy"
                  /\ mon[m].ev[1].id = mon[m].id
                  /\ "rtt" \in DOMAIN mon[m].ev[1]
                  /\ "error" \in DOMAIN mon[m].ev[1]

\* C13: an iteration that read the status healthy and a clock difference of at
\* most one second in absolute value emits one RTT observation (of less than
\* a second, in thousandths) and nothing else, and the next wait is the steady
\* interval
C13_QuietHealthyIteration ==
    \A m \in Monitors :
        (Completed(m) /\ mon[m].pc = "select" /\ mon[m].h /\ Abs(mon[m].cd) <= Second) =>
            /\ Len(mon[m].ev) = 1
            /\ mon[m].ev[1].kind = "rtt"
            /\ mon[m].ev[1].id = mon[m].id
            /\ mon[m].ev[1].seconds.whole = 0
            /\ mon[m].ev[1].seconds.thousandths \in Srtts
            /\ mon[m].timer = statusMonitoringInterval

\* a healthy iteration with a clock difference of exactly one second and a
\* smoothed RTT of 12 ms has ended: one observation of 0.012 s, a wait of 30 s
C13_Witness ==
    \E m \in Monitors :
        /\ Completed(m) /\ mon[m].pc = "select" /\ mon[m].h /\ mon[m].cd = Second
        /\ mon[m].ev = <<[kind |-> "rtt", id |-> mon[m].id,
                          seconds |-> [whole |-> 0, thousandths |-> 12]]>>
        /\ mon[m].timer = 30 * Second

\* C14: the target list of a probe created by a registration has the length
\* and the order of the registration's address list, element i being address i
\* followed by ProbingPrefix; the address list is the caller's, as passed
C14_TargetsAreSuffixedAddresses ==
    (call # NoCall /\ ~call.addErr) =>
        /\ targets[call.id] # NoProbe
        /\ Len(targets[call.id].hus) = Len(call.us)
        /\ \A i \in 1..Len(call.us) :
              targets[call.id].hus[i] = call.us[i] \o ProbingPrefix
        /\ call.us \in AddrLists

\* a registration with two addresses has created a probe with the two
\* probing URLs, in the order of the addresses
C14_Witness ==
    /\ call # NoCall /\ ~call.addErr
    /\ call.us = <<"10.0.0.1", "10.0.0.2">>
    /\ targets[call.id].hus = <<"10.0.0.1/raft/probing", "10.0.0.2/raft/probing">>

\* C15: every probe samples at the read timeout minus one second, which is
\* shorter than the read timeout by at least a second, whatever the peer and
\* its addresses
C15_SamplingIntervalFixed ==
    \A id \in Peers :
        targets[id] # NoProbe =>
            /\ targets[id].interval = ConnReadTimeout - Second
            /\ targets[id].interval < ConnReadTimeout
            /\ ConnReadTimeout - targets[id].interval >= Second

\* two peers with different address lists are probed at the same interval
C15_Witness ==
    /\ targets["P1"] # NoProbe /\ targets["P2"] # NoProbe
    /\ targets["P1"].hus # targets["P2"].hus
    /\ targets["P1"].interval = targets["P2"].interval
    /\ targets["P1"].interval = 4 * Second

\* the duration an RTT observation stands for
Millis(sec) == sec.whole * Second + sec.thousandths

\* C16: the values an iteration uses and emits are those of one snapshot of
\* the status: the RTT of the unhealthy warning is the RTT of the metric, the
\* warnings of one iteration carry the same error, and the clock difference
\* of the drift warning is the one that was tested
C16_SingleSnapshot ==
    \A m \in Monitors :
        Completed(m) =>
            \A i \in DOMAIN mon[m].ev :
                LET e == mon[m].ev[i] IN
                /\ (e.kind = "unhealthy" /\ "rtt" \in DOMAIN e) =>
                      e.rtt = Millis(Last(mon[m].ev).seconds)
                /\ (e.kind = "drift" /\ "error" \in DOMAIN e /\ mon[m].ev[1].kind = "unhealthy") =>
                      e.error = mon[m].ev[1].error
                /\ (e.kind = "drift" /\ "difference" \in DOMAIN e) =>
                      e.difference = mon[m].cd

\* C17: the drift warning carries the peer id, the clock difference as its
\* clock-drift quantity and the last error, and its RTT field, if it has one,
\* holds the smoothed RTT
C17_DriftWarningFields ==
    [][\A m \in Monitors :
          (mon[m].pc = "drift" /\ mon'[m] # mon[m]) =>
              LET e == Last(mon'[m].ev) IN
              /\ e.kind = "drift"
              /\ e.id = mon[m].id
              /\ "error" \in DOMAIN e
              /\ e.error = Err(mon[m].s)
              /\ IF "clockdrift" \in DOMAIN e
                 THEN e.clockdrift = ClockDiff(mon[m].s)
                 ELSE e.difference = ClockDiff(mon[m].s)
              /\ "rtt" \in DOMAIN e => e.rtt = SRTT(mon[m].s)]_vars

\* C18: a step that changes the state of a running monitor leaves every
\* status (health, RTT, error, clock difference, stop signal) and the
\* registry of probes as they were
C18_MonitorOnlyReads ==
    [][(\E m \in Monitors : mon'[m] # mon[m]) =>
          /\ status' = status
          /\ targets' = targets]_vars

\* a monitor has gone through an unhealthy iteration with a drift warning
\* and the status it read and the probe of its peer are there as before
C18_Witness ==
    \E m \in Monitors :
        /\ Completed(m) /\ Len(mon[m].ev) = 3
        /\ ~StopNotified(mon[m].s)
        /\ targets[mon[m].id] # NoProbe
        /\ targets[mon[m].id].s = mon[m].s

\* the monitor of P1 has just emitted an unhealthy warning
Warned == mon[1].pc = "clock" /\ mon[1].ev # <<>> /\ Last(mon[1].ev).kind = "unhealthy"

\* C19: if from some time on the status of P1 stays unhealthy and is not
\* stopped, its monitor emits unhealthy warnings again and again, and from
\* some time on every wait between them is the fast interval
C19_UnhealthyRecheckedFast ==
    <>[](~Health(1) /\ ~StopNotified(1)) =>
        /\ []<>Warned
        /\ <>[](mon[1].pc = "select" => mon[1].timer = statusErrorInterval)

\* after a healthy iteration (a wait of 30 s) the status has failed, and the
\* monitor has warned and gone back to a wait of 5 s
C19_Witness ==
    /\ ~Health(1) /\ ~StopNotified(1)
    /\ Completed(1) /\ mon[1].pc = "select"
    /\ mon[1].ev[1].kind = "unhealthy"
    /\ mon[1].timer = statusErrorInterval
    /\ SRTT(1) \in Srtts

\* the command line supplies vaultaddr and vaultpasswordpath and leaves the
\* password flags, vaultprefix and vaultpasswordname at their defaults
VaultOnly(ctx) ==
    /\ ctx[VoteAccountPasswordFlag] = ""
    /\ ctx[VoteBlockMakerAccountPasswordFlag] = ""
    /\ ctx[PasswordFileFlag] = ""
    /\ ctx[VaultAddrFlag] # ""
    /\ ctx[VaultPasswordPathFlag] # ""
    /\ ctx[VaultPrefixFlag] = DefaultContext[VaultPrefixFlag]
    /\ ctx[VaultPasswordNameFlag] = DefaultContext[VaultPasswordNameFlag]

\* C20: with no password flag and with vaultaddr and vaultpasswordpath
\* supplied, usingVaultPassword returns true and fetchPassword goes to Vault
\* (it does not end before it has asked Vault for anything)
C20_VaultUsedWithoutPasswordFlags ==
    VaultOnly(pw.ctx) =>
        /\ pw.fn = "usingVaultPassword" => (pw.out.kind = "return" /\ pw.out.value = TRUE)
        /\ pw.fn = "fetchPassword" => pw.out.calls # <<>>

\* the password flags set on command line ctx
SetPasswordFlags(ctx) ==
    {f \in {VoteAccountPasswordFlag, VoteBlockMakerAccountPasswordFlag, PasswordFileFlag} :
        ctx[f] # ""}

\* the elements of list
Range(list) == {list[i] : i \in DOMAIN list}

\* C21: with exactly one password flag set, usingVaultPassword returns false
\* and fetchPassword returns the value of that flag, without a request to
\* Vault, whatever the Vault flags are
C21_SinglePasswordFlagFromCLI ==
    Cardinality(SetPasswordFlags(pw.ctx)) = 1 =>
        /\ pw.fn = "usingVaultPassword" => (pw.out.kind = "return" /\ pw.out.value = FALSE)
        /\ pw.fn = "fetchPassword" =>
              /\ pw.out.kind = "return"
              /\ \E f \in SetPasswordFlags(pw.ctx) : pw.out.value = pw.ctx[f]
              /\ pw.out.calls = <<>>

\* the flags Vault cannot be used without, as documented
RequiredVaultFlags == {VaultAddrFlag, VaultPasswordPathFlag}

\* C22: with no password flag set and vaultaddr or vaultpasswordpath empty,
\* fetchPassword ends in the fatal error about missing flags, which names the
\* empty Vault flags and nothing else, and no request goes to Vault
C22_MissingVaultFlagsNamed ==
    (/\ SetPasswordFlags(pw.ctx) = {}
     /\ \E f \in RequiredVaultFlags : pw.ctx[f] = ""
     /\ pw.fn = "fetchPassword") =>
        /\ pw.out.kind = "fatal"
        /\ pw.out.msg = MissingVaultFlags
        /\ Range(pw.out.list) =
              {f \in {VaultAddrFlag, VaultPrefixFlag, VaultPasswordNameFlag,
                      VaultPasswordPathFlag} : pw.ctx[f] = ""}
        /\ pw.out.calls = <<>>

\* the defaults of the Vault flags as the README documents them
DocumentedVaultDefaults ==
    [vaultaddr |-> "", vaultpasswordpath |-> "", vaultprefix |-> "quorum",
     vaultpasswordname |-> "geth-pw"]

\* C23: a command line without Vault flags gives the Vault flags the values
\* the README documents as their defaults
C23_VaultDefaultsAsDocumented ==
    pw.ctx = DefaultContext =>
        \A f \in DOMAIN DocumentedVaultDefaults : pw.ctx[f] = DocumentedVaultDefaults[f]

\* C24: the interval of every monitor, and the timer it waits on, is 5 s or
\* 30 s at all times, and 5 s is less than 30 s
C24_IntervalOneOfTwo ==
    /\ statusErrorInterval = 5 * Second
    /\ statusMonitoringInterval = 30 * Second
    /\ statusErrorInterval < statusMonitoringInterval
    /\ \A m \in Monitors :
          /\ mon[m].interval \in {5 * Second, 30 * Second}
          /\ mon[m].pc = "select" => mon[m].timer \in {5 * Second, 30 * Second}

\* one monitor waits 5 s while another waits 30 s
C24_Witness ==
    \E m, n \in Monitors :
        /\ mon[m].pc = "select" /\ mon[m].timer = 5 * Second
        /\ mon[n].pc = "select" /\ mon[n].timer = 30 * Second

\* monitor m has decided the interval of its next wait in the iteration it is
\* in or has ended
Decided(m) == mon[m].pc \in {"clock", "drift", "metric"} \/ (Completed(m) /\ mon[m].pc = "select")

\* C25: the interval of the next wait depends on the health read and on
\* nothing else: two monitors that read the same health have decided the same
\* interval, an iteration that reads healthy after one that read healthy
\* decides the same interval again, and the steps after the decision (the
\* clock check, the drift warning, the metric) leave the interval and the
\* health read as they are
C25_IntervalFromHealthOnly ==
    [][/\ \A m, n \in Monitors :
             (Decided(m) /\ Decided(n) /\ mon[m].h = mon[n].h) =>
                 mon[m].interval = mon[n].interval
       /\ \A m \in Monitors :
             /\ (mon[m].pc = "health" /\ mon[m].h /\ mon'[m].pc = "clock" /\ mon'[m].h) =>
                   mon'[m].interval = mon[m].interval
             /\ (mon[m].pc \in {"clock", "drift", "metric"} /\ mon'[m] # mon[m]) =>
                   /\ mon'[m].interval = mon[m].interval
                   /\ mon'[m].h = mon[m].h]_vars

\* a healthy iteration that came after a wait of 5 s and emitted a drift
\* warning has ended, and the monitor waits 30 s
C25_Witness ==
    \E m \in Monitors :
        /\ Completed(m) /\ mon[m].pc = "select" /\ mon[m].h
        /\ Count(mon[m].ev, "drift") = 1
        /\ mon[m].cd > Second
        /\ mon[m].timer = statusMonitoringInterval

\* C26: the monitors are independent.  Every event of a monitor carries the
\* monitor's own peer id; no monitor watches the status of another peer's
\* probe; a step changes one monitor at most, and a change of a status (a
\* probe result, a stop) changes none; a monitor returns only when its own
\* status is stopped, and its health and interval change only to what its
\* own status gives
C26_MonitorsIndependent ==
    [][\A m \in Monitors :
          /\ \A i \in DOMAIN mon[m].ev : mon[m].ev[i].id = mon[m].id
          /\ \A p \in Peers :
                (targets[p] # NoProbe /\ targets[p].s = mon[m].s) => p = mon[m].id
          /\ mon'[m] # mon[m] => \A n \in Monitors \ {m} : mon'[n] = mon[n]
          /\ status' # status => mon'[m] = mon[m]
          /\ (mon[m].pc # "done" /\ mon'[m].pc = "done") => StopNotified(mon[m].s)
          /\ mon'[m].h # mon[m].h => mon'[m].h = Health(mon[m].s)
          /\ mon'[m].interval # mon[m].interval =>
                mon'[m].interval = IF mon'[m].h THEN statusMonitoringInterval
                                                ELSE statusErrorInterval]_vars

\* the monitor of one peer has returned on that peer's stop signal, and the
\* monitor of another peer has gone through an iteration since and waits,
\* with events under its own id
C26_Witness ==
    \E m, n \in Monitors :
        /\ mon[m].id # mon[n].id
        /\ mon[m].pc = "done" /\ StopNotified(mon[m].s)
        /\ Completed(n) /\ mon[n].pc = "select" /\ ~StopNotified(mon[n].s)
        /\ mon[n].timer = statusErrorInterval
        /\ Last(mon[n].ev).id = mon[n].id

\* the place of an event in an iteration
Rank(k) == CASE k = "unhealthy" -> 1 [] k = "drift" -> 2 [] k = "rtt" -> 3

\* C27: the events of an iteration come in the order unhealthy warning,
\* drift warning, RTT observation; when the clock is checked the interval of
\* the next wait is decided, and it is the one the monitor then waits
C27_EmissionOrder ==
    [][\A m \in Monitors :
          /\ \A i, j \in DOMAIN mon[m].ev :
                i < j => Rank(mon[m].ev[i].kind) < Rank(mon[m].ev[j].kind)
          /\ mon[m].pc \in {"clock", "drift", "metric"} =>
                mon[m].interval = IF mon[m].h THEN statusMonitoringInterval
                                               ELSE statusErrorInterval
          /\ (mon[m].pc = "metric" /\ mon'[m].pc = "select") =>
                /\ mon'[m].timer = mon[m].interval
                /\ Last(mon'[m].ev).kind = "rtt"]_vars

\* an iteration has ended with its three events in order
C27_Witness ==
    \E m \in Monitors :
        /\ Completed(m)
        /\ Len(mon[m].ev) = 3
        /\ mon[m].ev[1].kind = "unhealthy"
        /\ mon[m].ev[2].kind = "drift"
        /\ mon[m].ev[3].kind = "rtt"

\* C28: with more than one password flag set, usingVaultPassword and
\* fetchPassword end in the fatal error about too many password flags, whose
\* list is the flags that are set, and return nothing; with one or none set
\* they do not end in that error
C28_TooManyPasswordFlags ==
    pw.fn \in {"usingVaultPassword", "fetchPassword"} =>
        IF Cardinality(SetPasswordFlags(pw.ctx)) > 1
        THEN /\ pw.out.kind = "fatal"
             /\ pw.out.msg = TooManyPasswordFlags
             /\ Len(pw.out.list) = Cardinality(SetPasswordFlags(pw.ctx))
             /\ Range(pw.out.list) = SetPasswordFlags(pw.ctx)
        ELSE pw.out.msg # TooManyPasswordFlags

\* C29: fetchPasswordFromCLI returns votepassword if it is not empty, else
\* blockmakerpassword if it is not empty, else password if it is not empty,
\* as a normal return without a request to Vault; it ends in the fatal error
\* about no password arguments exactly when the three are empty
C29_CLIPrecedence ==
    pw.fn = "fetchPasswordFromCLI" =>
        /\ pw.out.calls = <<>>
        /\ pw.out.kind \in {"return", "fatal"}
        /\ pw.out.kind = "fatal" <=> SetPasswordFlags(pw.ctx) = {}
        /\ pw.out.kind = "fatal" => (pw.out.msg = NoPasswordArguments /\ pw.out.value = "")
        /\ pw.out.kind = "return" =>
              /\ pw.out.value # ""
              /\ pw.out.value =
                    IF pw.ctx["votepassword"] # "" THEN pw.ctx["votepassword"]
                    ELSE IF pw.ctx["blockmakerpassword"] # "" THEN pw.ctx["blockmakerpassword"]
                    ELSE pw.ctx["password"]

\* with the three password flags set, fetchPasswordFromCLI has returned the
\* value of votepassword
C29_Witness ==
    /\ pw.fn = "fetchPasswordFromCLI"
    /\ Cardinality(SetPasswordFlags(pw.ctx)) = 3
    /\ pw.out.kind = "return"
    /\ pw.out.value = "votepw"

\* the command line sets the four Vault flags and no password flag
VaultFlagsComplete(ctx) ==
    /\ SetPasswordFlags(ctx) = {}
    /\ \A f \in {VaultAddrFlag, VaultPrefixFlag, VaultPasswordNameFlag, VaultPasswordPathFlag} :
          ctx[f] # ""

\* C30: fetchPasswordFromVault, called for a command line with the Vault
\* flags, logs in and reads the secret at "/" + vaultprefix + "/" +
\* vaultpasswordpath, and ends either with the value stored under
\* vaultpasswordname or in a reported fatal error, never in a panic
C30_VaultSecretRead ==
    (pw.fn = "fetchPasswordFromVault" /\ VaultFlagsComplete(pw.ctx)) =>
        /\ pw.out.kind # "panic"
        /\ pw.out.kind = "return" => pw.out.value = StoredPassword
        /\ \/ \E i \in DOMAIN pw.out.calls :
                 pw.out.calls[i] =
                     Request("Read", "/" \o pw.ctx["vaultprefix"] \o "/" \o pw.ctx["vaultpasswordpath"])
           \/ pw.out.kind = "fatal" /\ pw.out.msg = LoginError

\* the operations requested by an outcome, in their order
Ops(o) == [i \in DOMAIN o.calls |-> o.calls[i].op]

====
